---- MODULE Spec2Model ----
(***************************************************************************)
(* Model of the RESP frame decoder of yarrs (src/protocol/mod.rs and       *)
(* src/protocol/error.rs).                                                 *)
(*                                                                         *)
(* A buffer is a sequence of bytes (0..255).  Positions are the 0-based    *)
(* offsets of std::io::Cursor, so byte i of the buffer is b[i + 1].        *)
(***************************************************************************)
EXTENDS Integers, Sequences, FiniteSets, TLC

VARIABLES wire, buf, pos, start, res, scan, prev, frames

vars == <<wire, buf, pos, start, res, scan, prev, frames>>

(***************************************************************************)
(* Bytes the decoder compares against.                                     *)
(***************************************************************************)
CR == 13
LF == 10
Plus == 43
Minus == 45
Colon == 58
Dot == 46
Dollar == 36
Underscore == 95

\* Tags with a todo!() arm of their own: * # ( ! = % | >
ReservedTags == {42, 35, 40, 33, 61, 37, 124, 62}

\* Other bytes used by the inputs below.
ascii ==
    [zero |-> 48, nine |-> 57, a |-> 97, e |-> 101, f |-> 102, i |-> 105,
     n |-> 110, t |-> 116, y |-> 121, x |-> 120, upperA |-> 65, upperZ |-> 90,
     star |-> 42, hash |-> 35, invalid |-> 255, lead2 |-> 195, cont |-> 169]

CRLF == <<CR, LF>>

IsDigit(c) == c >= ascii.zero /\ c <= ascii.nine

\* u8::to_ascii_lowercase, used by the case-insensitive float keywords
Lower(c) == IF c >= ascii.upperA /\ c <= ascii.upperZ THEN c + 32 ELSE c

(***************************************************************************)
(* Small sequence helpers.                                                 *)
(***************************************************************************)
Take(s, k) == SubSeq(s, 1, k)
Drop(s, k) == SubSeq(s, k + 1, Len(s))

RECURSIVE StripLeadingZeros(_)
StripLeadingZeros(d) ==
    IF d # <<>> /\ Head(d) = 0 THEN StripLeadingZeros(Tail(d)) ELSE d

RECURSIVE StripTrailingZeros(_)
StripTrailingZeros(d) ==
    IF d # <<>> /\ d[Len(d)] = 0 THEN StripTrailingZeros(Take(d, Len(d) - 1)) ELSE d

\* a <= b for two digit sequences without leading zeros
LeqDigits(a, b) ==
    \/ Len(a) < Len(b)
    \/ /\ Len(a) = Len(b)
       /\ \A k \in 1..Len(a) :
             (\A j \in 1..(k - 1) : a[j] = b[j]) => a[k] <= b[k]

RECURSIVE DigitsToNat(_)
DigitsToNat(d) ==
    IF d = <<>> THEN 0 ELSE 10 * DigitsToNat(Take(d, Len(d) - 1)) + d[Len(d)]

(***************************************************************************)
(* String::from_utf8 (mod.rs:87 and mod.rs:96): the bytes are kept as they *)
(* are when they form well-formed UTF-8, and the conversion fails          *)
(* otherwise.                                                              *)
(***************************************************************************)
IsCont(c) == c >= 128 /\ c <= 191

\* The number of bytes of the well-formed scalar value at the head of s,
\* 0 when there is none.
Utf8Width(s) ==
    LET c == s[1]
        has(k) == Len(s) >= k
        tail(k) == \A j \in 3..k : IsCont(s[j])
    IN  IF c <= 127 THEN 1
        ELSE IF c >= 194 /\ c <= 223 THEN
            IF has(2) /\ IsCont(s[2]) THEN 2 ELSE 0
        ELSE IF c >= 224 /\ c <= 239 THEN
            IF has(3) /\ tail(3)
               /\ (IF c = 224 THEN s[2] >= 160 /\ s[2] <= 191
                   ELSE IF c = 237 THEN s[2] >= 128 /\ s[2] <= 159
                   ELSE IsCont(s[2]))
            THEN 3 ELSE 0
        ELSE IF c >= 240 /\ c <= 244 THEN
            IF has(4) /\ tail(4)
               /\ (IF c = 240 THEN s[2] >= 144 /\ s[2] <= 191
                   ELSE IF c = 244 THEN s[2] >= 128 /\ s[2] <= 143
                   ELSE IsCont(s[2]))
            THEN 4 ELSE 0
        ELSE 0

RECURSIVE from_utf8(_)
from_utf8(s) ==
    IF s = <<>> THEN TRUE
    ELSE LET w == Utf8Width(s) IN w > 0 /\ from_utf8(Drop(s, w))

(***************************************************************************)
(* <i32 as FromStr>::from_str and <i64 as FromStr>::from_str, reached by   *)
(* .parse() in read_from_line (mod.rs:96).  An optional sign, then one or  *)
(* more decimal digits; a value outside the type is an error.  The value   *)
(* is kept as a sign and a magnitude in decimal digits without leading     *)
(* zeros (none for 0), so that 64-bit values need no arithmetic.           *)
(***************************************************************************)
I32Max == <<2, 1, 4, 7, 4, 8, 3, 6, 4, 7>>
I32MinMag == <<2, 1, 4, 7, 4, 8, 3, 6, 4, 8>>
I64Max == <<9, 2, 2, 3, 3, 7, 2, 0, 3, 6, 8, 5, 4, 7, 7, 5, 8, 0, 7>>
I64MinMag == <<9, 2, 2, 3, 3, 7, 2, 0, 3, 6, 8, 5, 4, 7, 7, 5, 8, 0, 8>>

IntErr == [ok |-> FALSE, cls |-> "err", neg |-> FALSE, digits |-> <<>>, exp10 |-> 0]

ToDigits(s) == [k \in 1..Len(s) |-> s[k] - ascii.zero]

\* The value of the magnitude mag with the sign neg, when the type holds it
int_value(neg, mag, maxMag, minMag) ==
    IF neg /\ ~LeqDigits(mag, minMag) THEN IntErr
    ELSE IF ~neg /\ ~LeqDigits(mag, maxMag) THEN IntErr
    ELSE [ok |-> TRUE, cls |-> "int", neg |-> neg /\ mag # <<>>, digits |-> mag,
          exp10 |-> 0]

\* The text after the sign: every byte a digit
int_digits(neg, digits, maxMag, minMag) ==
    IF \E k \in 1..Len(digits) : ~IsDigit(digits[k]) THEN IntErr
    ELSE int_value(neg, StripLeadingZeros(ToDigits(digits)), maxMag, minMag)

from_str_int(s, maxMag, minMag) ==
    IF s = <<>> THEN IntErr
    ELSE IF s = <<Plus>> \/ s = <<Minus>> THEN IntErr
    ELSE int_digits(s[1] = Minus,
                    IF s[1] = Plus \/ s[1] = Minus THEN Tail(s) ELSE s,
                    maxMag, minMag)

from_str_i32(s) == from_str_int(s, I32Max, I32MinMag)
from_str_i64(s) == from_str_int(s, I64Max, I64MinMag)

(***************************************************************************)
(* <f64 as FromStr>::from_str, reached by .parse() in read_from_line       *)
(* (mod.rs:96):                                                            *)
(*    Float  ::= Sign? ( 'inf' | 'infinity' | 'nan' | Number )             *)
(*    Number ::= ( Digit+ | Digit+ '.' Digit* | Digit* '.' Digit+ ) Exp?   *)
(*    Exp    ::= 'e' Sign? Digit+                                          *)
(* with the letters in either case.  The value is kept as an exact decimal *)
(* sign * digits * 10^exp10 without leading or trailing zeros; values      *)
(* beyond the range of f64 become inf or zero.  The rounding of the digits *)
(* to a 53-bit mantissa is not modelled.                                   *)
(***************************************************************************)
KwInf == <<ascii.i, ascii.n, ascii.f>>
KwInfinity == <<ascii.i, ascii.n, ascii.f, ascii.i, ascii.n, ascii.i, ascii.t, ascii.y>>
KwNan == <<ascii.n, ascii.a, ascii.n>>

\* f64::MAX is 1.7976931348623157e308; decimals from ...158e308 on round to inf
F64MaxExp10 == 309
F64MinExp10 == -323
F64InfDigits == <<1, 7, 9, 7, 6, 9, 3, 1, 3, 4, 8, 6, 2, 3, 1, 5, 8>>
ExpCap == 10000

FloatErr == [ok |-> FALSE, cls |-> "err", neg |-> FALSE, digits |-> <<>>, exp10 |-> 0]

Float(cls, neg, digits, exp10) ==
    [ok |-> TRUE, cls |-> cls, neg |-> neg, digits |-> digits, exp10 |-> exp10]

\* The length of the longest prefix of s made of digits
RECURSIVE DigitRun(_)
DigitRun(s) == IF s # <<>> /\ IsDigit(s[1]) THEN 1 + DigitRun(Tail(s)) ELSE 0

\* digit sequences a >= b, compared as decimal fractions 0.a and 0.b
RECURSIVE FracGeq(_, _)
FracGeq(a, b) ==
    IF b = <<>> THEN TRUE
    ELSE IF a = <<>> THEN \A k \in 1..Len(b) : b[k] = 0
    ELSE IF a[1] # b[1] THEN a[1] > b[1]
    ELSE FracGeq(Tail(a), Tail(b))

\* The decimal sign * 0.sig * 10^order as an f64 value
finite_value(neg, sig, order) ==
    IF sig = <<>> THEN Float("zero", neg, <<>>, 0)
    ELSE IF order > F64MaxExp10 \/ (order = F64MaxExp10 /\ FracGeq(sig, F64InfDigits)) THEN
        Float("inf", neg, <<>>, 0)
    ELSE IF order < F64MinExp10 THEN Float("zero", neg, <<>>, 0)
    ELSE Float("finite", neg, sig, order - Len(sig))

\* lead is the digits of the number without leading zeros and last the
\* power of ten of its last digit
significant(neg, lead, last) ==
    finite_value(neg, StripTrailingZeros(lead), Len(lead) + last)

\* The finite decimal sign * (ip.fp) * 10^e as an f64 value
MakeFloat(neg, ip, fp, e) == significant(neg, StripLeadingZeros(ip \o fp), e - Len(fp))

ExpErr == [ok |-> FALSE, val |-> 0]

exp_value(eneg, v) == [ok |-> TRUE, val |-> IF eneg THEN 0 - v ELSE v]

exp_magnitude(eneg, m) ==
    exp_value(eneg, IF Len(m) > 4 THEN ExpCap ELSE DigitsToNat(m))

exp_digits(eneg, d) ==
    IF d = <<>> \/ DigitRun(d) # Len(d) THEN ExpErr
    ELSE exp_magnitude(eneg, StripLeadingZeros(ToDigits(d)))

exp_signed(r) ==
    exp_digits(r # <<>> /\ r[1] = Minus,
               IF r # <<>> /\ (r[1] = Plus \/ r[1] = Minus) THEN Tail(r) ELSE r)

\* Exp?: [ok, val] for the text after the mantissa
ParseExp(s) ==
    IF s = <<>> THEN [ok |-> TRUE, val |-> 0]
    ELSE IF Lower(s[1]) # ascii.e THEN ExpErr
    ELSE exp_signed(Tail(s))

\* ip and fp are the digits before and after the point, ex the exponent
number_value(neg, ip, fp, ex) ==
    IF Len(ip) + Len(fp) = 0 \/ ~ex.ok THEN FloatErr
    ELSE MakeFloat(neg, ToDigits(ip), ToDigits(fp), ex.val)

\* rest is the text after the integer part and the point, nf the length of
\* the fraction at its head
number_fraction(neg, ip, rest, nf) ==
    number_value(neg, ip, Take(rest, nf), ParseExp(Drop(rest, nf)))

\* ni is the length of the integer part at the head of body
number_point(neg, body, ni) ==
    IF Len(body) > ni /\ body[ni + 1] = Dot THEN
        number_fraction(neg, Take(body, ni), Drop(body, ni + 1),
                        DigitRun(Drop(body, ni + 1)))
    ELSE number_fraction(neg, Take(body, ni), Drop(body, ni), 0)

\* body is the text after the sign and low the same in lower case
float_body(neg, body, low) ==
    IF body = <<>> THEN FloatErr
    ELSE IF low = KwInf \/ low = KwInfinity THEN Float("inf", neg, <<>>, 0)
    ELSE IF low = KwNan THEN Float("nan", neg, <<>>, 0)
    ELSE number_point(neg, body, DigitRun(body))

float_signed(neg, body) ==
    float_body(neg, body, [k \in 1..Len(body) |-> Lower(body[k])])

from_str_f64(s) ==
    IF s = <<>> THEN FloatErr
    ELSE float_signed(s[1] = Minus, IF s[1] = Plus \/ s[1] = Minus THEN Tail(s) ELSE s)

(***************************************************************************)
(* Frames (mod.rs:11-19) and the outcomes of a call.  A call ends with a   *)
(* frame ("Ok"), with FrameParsingError::Incomplete, with                  *)
(* FrameParsingError::Other(msg), or in a panic (todo!(), an index out of  *)
(* range).                                                                 *)
(***************************************************************************)
NoNum == [ok |-> FALSE, cls |-> "none", neg |-> FALSE, digits |-> <<>>, exp10 |-> 0]

\* val holds the bytes of a text or bulk payload, num a numeric payload
NoFrame == [type |-> "None", val |-> <<>>, num |-> NoNum]
Simple(text) == [type |-> "Simple", val |-> text, num |-> NoNum]
Error(text) == [type |-> "Error", val |-> text, num |-> NoNum]
Integer(v) == [type |-> "Integer", val |-> <<>>, num |-> v]
Double(v) == [type |-> "Double", val |-> <<>>, num |-> v]
Bulk(data) == [type |-> "Bulk", val |-> data, num |-> NoNum]
Null == [type |-> "Null", val |-> <<>>, num |-> NoNum]

\* A String or a number read from a line, on its way to becoming a frame
Text(line) == [type |-> "Value", val |-> line, num |-> NoNum]
Value(v) == [type |-> "Value", val |-> <<>>, num |-> v]

NoScan == [called |-> FALSE, at |-> 0, kind |-> "None", line |-> <<>>, pos |-> 0,
           reads |-> {}]

Ok(frame, p, sc) ==
    [kind |-> "Ok", frame |-> frame, msg |-> "", pos |-> p, scan |-> sc]
Incomplete(p, sc) ==
    [kind |-> "Incomplete", frame |-> NoFrame, msg |-> "", pos |-> p, scan |-> sc]
Other(m, p, sc) ==
    [kind |-> "Other", frame |-> NoFrame, msg |-> m, pos |-> p, scan |-> sc]
Panic(p, sc) ==
    [kind |-> "Panic", frame |-> NoFrame, msg |-> "", pos |-> p, scan |-> sc]

\* error.rs: the messages of the From conversions
InvalidFrameFormat == "invalid frame format"
InvalidIntegerFormat == "invalid integer format"
InvalidDoubleFormat == "invalid double format"
InvalidBulkSize == "invalid bulk string size"

(***************************************************************************)
(* read_u8 (mod.rs:62-68): one byte at the position, or Incomplete at the  *)
(* end of the buffer.                                                      *)
(***************************************************************************)
read_u8(b, p) ==
    IF p < Len(b) THEN [ok |-> TRUE, byte |-> b[p + 1], pos |-> p + 1]
    ELSE [ok |-> FALSE, byte |-> 0, pos |-> p]

(***************************************************************************)
(* read_line (mod.rs:71-83).  scan_line is its for loop over start..end;   *)
(* reads collects the indices of the buffer the loop reads, and an index   *)
(* outside the buffer panics.                                              *)
(***************************************************************************)
Scanned(found, oob, at, reads) ==
    [found |-> found, oob |-> oob, at |-> at, reads |-> reads]

\* The loop went on after reading the indices in more
Reading(more, r) == [r EXCEPT !.reads = @ \cup more]

RECURSIVE scan_line(_, _, _)
scan_line(b, i, end) ==
    IF i >= end THEN Scanned(FALSE, FALSE, i, {})
    ELSE IF i >= Len(b) THEN Scanned(FALSE, TRUE, i, {i})
    ELSE IF b[i + 1] # CR THEN Reading({i}, scan_line(b, i + 1, end))
    ELSE IF i + 1 >= Len(b) THEN Scanned(FALSE, TRUE, i, {i, i + 1})
    ELSE IF b[i + 2] = LF THEN Scanned(TRUE, FALSE, i, {i, i + 1})
    ELSE Reading({i, i + 1}, scan_line(b, i + 1, end))

Line(kind, at, line, p, reads) ==
    [called |-> TRUE, at |-> at, kind |-> kind, line |-> line, pos |-> p,
     reads |-> reads]

\* What read_line returns when its loop ended as r
line_result(b, p, r) ==
    IF r.oob THEN Line("Panic", p, <<>>, p, r.reads)
    ELSE IF r.found THEN Line("Ok", p, SubSeq(b, p + 1, r.at), r.at + 2, r.reads)
    ELSE Line("Incomplete", p, <<>>, p, r.reads)

\* line_result with a slice that ends one byte late
line_result_long(b, p, r) ==
    IF r.found THEN Line("Ok", p, SubSeq(b, p + 1, r.at + 1), r.at + 2, r.reads)
    ELSE Line("Incomplete", p, <<>>, p, r.reads)

\* read_line with the loop running to the buffer's last index
read_line_to_len(b, p) == line_result(b, p, scan_line(b, p, Len(b)))

\* read_line scanning back from the buffer's end
read_line_last(b, p) ==
    LET hits == { i \in p..(Len(b) - 2) : b[i + 1] = CR /\ b[i + 2] = LF }
        all == p..(Len(b) - 1)
    IN  IF hits = {} THEN Line("Incomplete", p, <<>>, p, all)
        ELSE LET i == CHOOSE i \in hits : \A j \in hits : j <= i IN
             Line("Ok", p, SubSeq(b, p + 1, i), i + 2, all)

\* read_line with a slice that ends one byte late
read_line_long_slice(b, p) == line_result_long(b, p, scan_line(b, p, Len(b) - 1))

read_line(b, p) ==
    IF Len(b) = 0 THEN
        \* len() - 1 underflows: an overflow panic, or in a build without
        \* overflow checks a range up to usize::MAX whose first index panics
        Line("Panic", p, <<>>, p, {})
    ELSE line_result(b, p, scan_line(b, p, Len(b) - 1))

(***************************************************************************)
(* read_line_simple (mod.rs:85-88): the line as a String.                  *)
(***************************************************************************)
\* l is what read_line returned
simple_result(l) ==
    IF l.kind = "Panic" THEN Panic(l.pos, l)
    ELSE IF l.kind = "Incomplete" THEN Incomplete(l.pos, l)
    ELSE IF ~from_utf8(l.line) THEN Other(InvalidFrameFormat, l.pos, l)
    ELSE Ok(Text(l.line), l.pos, l)

read_line_simple(b, p) == simple_result(read_line(b, p))

(***************************************************************************)
(* read_from_line::<T> (mod.rs:90-98): the line as a String, then parsed   *)
(* as T, one of "i32", "i64" and "f64".  from_str is T's parser and        *)
(* parse_error the message of the From conversion of its error             *)
(* (error.rs:35-45).                                                       *)
(***************************************************************************)
from_str(T, s) ==
    IF T = "i32" THEN from_str_i32(s)
    ELSE IF T = "i64" THEN from_str_i64(s)
    ELSE from_str_f64(s)

parse_error(T) == IF T = "f64" THEN InvalidDoubleFormat ELSE InvalidIntegerFormat

\* l is the line read and v what it parsed to
parsed_result(T, l, v) ==
    IF ~v.ok THEN Other(parse_error(T), l.pos, l) ELSE Ok(Value(v), l.pos, l)

\* parsed_result reporting a line that does not parse as missing input
parsed_result_retry(T, l, v) ==
    IF ~v.ok THEN Incomplete(l.pos, l) ELSE Ok(Value(v), l.pos, l)

\* l is what read_line returned
typed_result(T, l) ==
    IF l.kind = "Panic" THEN Panic(l.pos, l)
    ELSE IF l.kind = "Incomplete" THEN Incomplete(l.pos, l)
    ELSE IF ~from_utf8(l.line) THEN Other(InvalidFrameFormat, l.pos, l)
    ELSE parsed_result(T, l, from_str(T, l.line))

typed_result_retry(T, l) ==
    IF l.kind = "Panic" THEN Panic(l.pos, l)
    ELSE IF l.kind = "Incomplete" THEN Incomplete(l.pos, l)
    ELSE IF ~from_utf8(l.line) THEN Other(InvalidFrameFormat, l.pos, l)
    ELSE parsed_result_retry(T, l, from_str(T, l.line))

\* read_from_line reporting a line that does not parse as missing input
read_from_line_retry(b, p, T) == typed_result_retry(T, read_line(b, p))

read_from_line(b, p, T) == typed_result(T, read_line(b, p))

(***************************************************************************)
(* The '$' arm of Frame::parse (mod.rs:28-46); p is the position after the *)
(* tag.                                                                    *)
(***************************************************************************)
\* mod.rs:32-41: size is the length, first the position after the header
\* line.  len < end + 2, with end = start + size, is written so that no sum
\* exceeds the buffer's length.
bulk_body(b, size, first, sc) ==
    IF size > Len(b) - first - 2 THEN Incomplete(first, sc)
    ELSE Ok(Bulk(SubSeq(b, first + 1, first + size)), first + size + 2, sc)

\* mod.rs:30-45: h is what read_from_line::<i32> returned
bulk_size(b, h) ==
    IF h.kind # "Ok" THEN h
    ELSE IF ~h.frame.num.neg THEN
        bulk_body(b, DigitsToNat(h.frame.num.digits), h.pos, h.scan)
    ELSE IF h.frame.num.digits = <<1>> THEN Ok(Null, h.pos, h.scan)
    ELSE Other(InvalidBulkSize, h.pos, h.scan)

\* bulk_size with the guard num > 0 on its first arm
bulk_size_positive(b, h) ==
    IF h.kind # "Ok" THEN h
    ELSE IF ~h.frame.num.neg /\ h.frame.num.digits # <<>> THEN
        bulk_body(b, DigitsToNat(h.frame.num.digits), h.pos, h.scan)
    ELSE IF h.frame.num.neg /\ h.frame.num.digits = <<1>> THEN Ok(Null, h.pos, h.scan)
    ELSE Other(InvalidBulkSize, h.pos, h.scan)

\* The '$' arm with the guard num > 0 on its first arm
parse_bulk_positive(b, p) == bulk_size_positive(b, read_from_line(b, p, "i32"))

parse_bulk(b, p) == bulk_size(b, read_from_line(b, p, "i32"))

(***************************************************************************)
(* Frame::parse (mod.rs:22-59).                                            *)
(***************************************************************************)
\* Ok(Frame::X(r?)): the value read becomes the payload of a frame
Wrap(r, frame) == IF r.kind = "Ok" THEN [r EXCEPT !.frame = frame] ELSE r

simple_frame(r) == Wrap(r, Simple(r.frame.val))
error_frame(r) == Wrap(r, Error(r.frame.val))
integer_frame(r) == Wrap(r, Integer(r.frame.num))
double_frame(r) == Wrap(r, Double(r.frame.num))

\* The match on the byte t that read_u8 returned
parse_tag(b, t) ==
    IF ~t.ok THEN Incomplete(t.pos, NoScan)
    ELSE IF t.byte = Plus THEN simple_frame(read_line_simple(b, t.pos))
    ELSE IF t.byte = Minus THEN error_frame(read_line_simple(b, t.pos))
    ELSE IF t.byte = Colon THEN integer_frame(read_from_line(b, t.pos, "i64"))
    ELSE IF t.byte = Dot THEN double_frame(read_from_line(b, t.pos, "f64"))
    ELSE IF t.byte = Dollar THEN parse_bulk(b, t.pos)
    ELSE IF t.byte = Underscore THEN Ok(Null, t.pos, NoScan)
    ELSE \* todo!() for the reserved tags and for every other byte
        Panic(t.pos, NoScan)

Frame_parse(b, p) == parse_tag(b, read_u8(b, p))

(***************************************************************************)
(* The inputs.  The peer sends a stream of items; an item is the bytes it  *)
(* puts on the wire and, when they are the encoding of a frame (the wire   *)
(* formats exercised by test_parse_success, mod.rs:108-125), that frame.   *)
(***************************************************************************)
MaxLen == 4
MaxFrames == 1

Alphabet == {Plus, Minus, Dollar, Underscore, CR, LF, ascii.zero + 1}

Digit(d) == ascii.zero + d

Item(bytes, frame) == [bytes |-> bytes, frame |-> frame]

EncSimple(text) == Item(<<Plus>> \o text \o CRLF, Simple(text))
EncError(text) == Item(<<Minus>> \o text \o CRLF, Error(text))
EncInteger(text, neg, mag) ==
    Item(<<Colon>> \o text \o CRLF,
         Integer([ok |-> TRUE, cls |-> "int", neg |-> neg, digits |-> mag, exp10 |-> 0]))
EncBulk(lentext, data) == Item(<<Dollar>> \o lentext \o CRLF \o data \o CRLF, Bulk(data))
EncNullBulk == Item(<<Dollar, Minus, Digit(1)>> \o CRLF, Null)
EncNull == Item(<<Underscore>> \o CRLF, Null)
EncDouble(text, neg, digits, exp10) ==
    Item(<<Dot>> \o text \o CRLF,
         Double([ok |-> TRUE, cls |-> "finite", neg |-> neg, digits |-> digits,
                 exp10 |-> exp10]))

\* Complete encodings that may come before the last item of a stream
LeadItems ==
    { EncSimple(<<ascii.a>>), EncNull, EncBulk(<<Digit(1)>>, <<ascii.a>>) }

Texts ==
    { <<>>, <<ascii.a>>, <<ascii.a, CR>>, <<LF, ascii.a>>, <<ascii.lead2, ascii.cont>> }

Payloads ==
    { <<>>, <<ascii.a>>, CRLF, <<ascii.invalid>>, <<ascii.a, CR, LF, ascii.a>> }

LenText(n) == IF n < 10 THEN <<Digit(n)>> ELSE <<Digit(n \div 10), Digit(n % 10)>>

ValidItems ==
    { EncSimple(t) : t \in Texts } \cup { EncError(t) : t \in Texts }
    \cup { EncInteger(<<Digit(1), Digit(2)>>, FALSE, <<1, 2>>),
           EncInteger(<<Plus, Digit(1)>>, FALSE, <<1>>),
           EncInteger(<<Minus, Digit(2), Digit(0)>>, TRUE, <<2, 0>>),
           EncInteger(<<Digit(0)>>, FALSE, <<>>) }
    \cup { EncDouble(<<Digit(1), Dot, Digit(5)>>, FALSE, <<1, 5>>, -1),
           EncDouble(<<Minus, Digit(1), ascii.e, Minus, Digit(1)>>, TRUE, <<1>>, -1) }
    \cup { EncBulk(LenText(Len(d)), d) : d \in Payloads }
    \cup { EncNullBulk, EncNull }

\* Lines of which each is no text, no integer, no float or no bulk length
Lines ==
    { <<ascii.invalid>>, <<ascii.lead2>>, <<ascii.a, ascii.invalid>>,
      <<>>, <<ascii.x>>, <<Plus>>, <<Minus>>, <<Dot>>, <<ascii.e, Digit(1)>>,
      <<Digit(1), ascii.e>>, <<Digit(1), Dot, Digit(5)>>, <<Digit(1), Dot>>,
      <<ascii.n, ascii.a, ascii.n>>, <<ascii.i, ascii.n, ascii.f>>,
      <<32, Digit(1)>>, <<Digit(1), ascii.e, Digit(9), Digit(9), Digit(9)>>,
      <<Minus, Digit(2)>>, <<Minus, Digit(0)>>, <<Minus, Digit(0), Digit(1)>>,
      <<Minus, Digit(1), Digit(0)>>,
      <<Digit(2), Digit(1), Digit(4), Digit(7), Digit(4), Digit(8), Digit(3),
        Digit(6), Digit(4), Digit(7)>>,
      <<Digit(2), Digit(1), Digit(4), Digit(7), Digit(4), Digit(8), Digit(3),
        Digit(6), Digit(4), Digit(8)>>,
      <<Minus, Digit(2), Digit(1), Digit(4), Digit(7), Digit(4), Digit(8), Digit(3),
        Digit(6), Digit(4), Digit(8)>>,
      <<Minus, Digit(2), Digit(1), Digit(4), Digit(7), Digit(4), Digit(8), Digit(3),
        Digit(6), Digit(4), Digit(9)>>,
      <<Digit(9), Digit(2), Digit(2), Digit(3), Digit(3), Digit(7), Digit(2),
        Digit(0), Digit(3), Digit(6), Digit(8), Digit(5), Digit(4), Digit(7),
        Digit(7), Digit(5), Digit(8), Digit(0), Digit(8)>> }

LineTags == {Plus, Minus, Colon, Dot, Dollar}

\* What follows a bulk payload in place of the delimiter
Trailers == { <<>>, <<ascii.x>>, <<ascii.x, ascii.y>>, <<CR>>, <<CR, ascii.x>>, <<LF, CR>> }

RawItems ==
    { Item(<<t>> \o l \o CRLF, NoFrame) : t \in LineTags, l \in Lines }
    \cup { Item(<<Dollar>> \o LenText(Len(d)) \o CRLF \o d \o tr, NoFrame) :
               d \in Payloads, tr \in Trailers }
    \cup { Item(<<t>> \o CRLF, NoFrame) : t \in ReservedTags \cup {ascii.a, CR, LF} }

WireItems == ValidItems \cup RawItems

RECURSIVE SeqsUpTo(_, _)
SeqsUpTo(S, k) ==
    IF k = 0 THEN {<<>>}
    ELSE LET shorter == SeqsUpTo(S, k - 1) IN
         shorter \cup { Append(s, x) : s \in shorter, x \in S }

RECURSIVE ItemBytes(_)
ItemBytes(w) == IF w = <<>> THEN <<>> ELSE Head(w).bytes \o ItemBytes(Tail(w))

\* All the bytes the peer sends
Stream == ItemBytes(wire)

(***************************************************************************)
(* The state.  buf is the slice under the Cursor (the bytes received so    *)
(* far), pos the Cursor's position, start the position at which the last   *)
(* call of Frame::parse began, res its outcome, scan the call of read_line *)
(* it made, frames the frames returned since the position was 0 or chosen, *)
(* and prev the outcome of the call that the last retry repeats.           *)
(***************************************************************************)
NoCall == [kind |-> "NoCall", frame |-> NoFrame, msg |-> ""]
NoPrev == [kind |-> "NoCall", frame |-> NoFrame, msg |-> "", pos |-> 0]

InitCommon ==
    /\ start = pos
    /\ res = NoCall
    /\ scan = NoScan
    /\ prev = NoPrev
    /\ frames = <<>>

\* Any byte stream, any part of it received, decoded from its start
Init ==
    /\ wire \in SeqsUpTo({ Item(<<c>>, NoFrame) : c \in Alphabet }, MaxLen)
    /\ \E k \in 0..Len(Stream) : buf = Take(Stream, k)
    /\ pos = 0
    /\ InitCommon

\* A stream of wire items, any part of it received, decoded from its start
InitWire ==
    /\ wire \in {<<>>} \cup { l \o <<it>> : l \in SeqsUpTo(LeadItems, MaxFrames),
                                          it \in WireItems }
    /\ \E k \in 0..Len(Stream) : buf = Take(Stream, k)
    /\ pos = 0
    /\ InitCommon

(***************************************************************************)
(* A call of Frame::parse on the cursor: the first one, or the next one    *)
(* after a frame.                                                          *)
(***************************************************************************)
Returns(out) ==
    /\ res' = [kind |-> out.kind, frame |-> out.frame, msg |-> out.msg]
    /\ pos' = out.pos
    /\ scan' = out.scan
    /\ frames' = IF out.kind = "Ok" THEN Append(frames, out.frame) ELSE frames

Parse ==
    /\ res.kind \in {"NoCall", "Ok"}
    /\ Returns(Frame_parse(buf, pos))
    /\ start' = pos
    /\ prev' = IF res.kind = "NoCall" THEN prev ELSE NoPrev
    /\ UNCHANGED <<wire, buf>>

(***************************************************************************)
(* The read loop receives n more bytes (one, or none) and decodes again    *)
(* from the position at which the last call began, on a new Cursor over    *)
(* the longer buffer.  A process that panicked receives nothing.           *)
(***************************************************************************)
Receive(n) ==
    /\ res.kind \in {"Ok", "Incomplete", "Other"}
    /\ Len(buf) + n <= Len(Stream)
    /\ buf' = Take(Stream, Len(buf) + n)
    /\ pos' = start
    /\ prev' = [kind |-> res.kind, frame |-> res.frame, msg |-> res.msg, pos |-> pos]
    /\ res' = NoCall
    /\ scan' = NoScan
    /\ frames' = IF res.kind = "Ok" THEN Take(frames, Len(frames) - 1) ELSE frames
    /\ UNCHANGED <<wire, start>>

Next ==
    \/ Parse
    \/ \E n \in {0, 1} : Receive(n)

Spec == Init /\ [][Next]_vars

SpecWire == InitWire /\ [][Next]_vars

(***************************************************************************)
(* Properties.                                                             *)
(***************************************************************************)
SupportedTags == {Plus, Minus, Colon, Dot, Dollar, Underscore}

Called == res.kind # "NoCall"

\* The tag byte of the last call, -1 when the buffer ended before it
TagByte == IF start < Len(buf) THEN buf[start + 1] ELSE -1

\* The offsets from s on at which the two-byte delimiter begins in b
Delims(b, s) == { i \in s..(Len(b) - 2) : b[i + 1] = CR /\ b[i + 2] = LF }

Least(S) == CHOOSE i \in S : \A j \in S : i <= j

HasDelim(s) ==
    \E i \in 1..(Len(s) - 1) : s[i] = CR /\ s[i + 1] = LF

\* C2: a call on a byte that is none of the six supported tags returns an
\* Other error: it does not panic, returns no frame and is not Incomplete.
C2_UnsupportedTagIsError ==
    (Called /\ TagByte # -1 /\ TagByte \notin SupportedTags) => res.kind = "Other"

\* C3: whenever a call returns Incomplete, the position is the one at which
\* the call began.
C3_IncompleteKeepsPosition ==
    (Called /\ res.kind = "Incomplete") => pos = start

AllDigits(s) == \A k \in 1..Len(s) : IsDigit(s[k])

Unsigned(l) == IF l # <<>> /\ l[1] \in {Plus, Minus} THEN Tail(l) ELSE l

IsSignedIntText(l) == Unsigned(l) # <<>> /\ AllDigits(Unsigned(l))

\* The magnitude of a signed integer text, without leading zeros
Magnitude(l) == StripLeadingZeros(ToDigits(Unsigned(l)))

IsNegativeText(l) ==
    IsSignedIntText(l) /\ l[1] = Minus /\ Magnitude(l) # <<>>

IsMinusOne(l) == IsNegativeText(l) /\ Magnitude(l) = <<1>>

IsZeroText(l) == IsSignedIntText(l) /\ Magnitude(l) = <<>>

IsMantissa(m) ==
    \/ m # <<>> /\ AllDigits(m)
    \/ \E k \in 1..Len(m) :
          /\ m[k] = Dot
          /\ Len(m) > 1
          /\ AllDigits(Take(m, k - 1))
          /\ AllDigits(Drop(m, k))

IsExponent(x) ==
    \/ x = <<>>
    \/ /\ Lower(x[1]) = ascii.e
       /\ Unsigned(Tail(x)) # <<>>
       /\ AllDigits(Unsigned(Tail(x)))

IsFloatText(l) ==
    LET body == Unsigned(l)
        low == [k \in 1..Len(body) |-> Lower(body[k])]
    IN  /\ body # <<>>
        /\ \/ low \in {KwInf, KwInfinity, KwNan}
           \/ \E c \in 1..Len(body) :
                 IsMantissa(Take(body, c)) /\ IsExponent(Drop(body, c))

\* The last call read a tag that takes a line, and the line is complete
HasLine == Called /\ TagByte \in LineTags /\ Delims(buf, start + 1) # {}

LineEnd == Least(Delims(buf, start + 1))

TheLine == SubSeq(buf, start + 2, LineEnd)

InvalidFor(t, l) ==
    IF t \in {Plus, Minus} THEN ~from_utf8(l)
    ELSE IF t = Colon THEN ~IsSignedIntText(l)
    ELSE IF t = Dot THEN ~IsFloatText(l)
    ELSE ~IsSignedIntText(l) \/ (IsNegativeText(l) /\ ~IsMinusOne(l))

\* C4: a supported tag followed by a complete line that is invalid for the
\* tag (not UTF-8 after '+' or '-', no signed integer after ':', no float
\* after '.', no integer or one <= -2 after '$') gives an Other error, never
\* Incomplete and never a frame.
C4_InvalidLineIsFormatError ==
    (HasLine /\ InvalidFor(TagByte, TheLine)) => res.kind = "Other"

\* A '.' line that is no float was read, with bytes left after it
C4_Witness ==
    /\ HasLine /\ TagByte = Dot /\ InvalidFor(Dot, TheLine)
    /\ res.kind = "Other" /\ res.msg = InvalidDoubleFormat

\* C1: a call from position 0 on a strict prefix of a complete valid frame
\* encoding returns Incomplete.
C1_PrefixIsIncomplete ==
    (/\ Called /\ start = 0
     /\ wire # <<>> /\ wire[1].frame # NoFrame
     /\ Len(buf) < Len(wire[1].bytes)) => res.kind = "Incomplete"

\* C5: a Bulk frame holds exactly the declared number of bytes that follow
\* the header line, those bytes are followed by the delimiter, and the
\* position ends just past that delimiter.
C5_BulkEndsWithDelimiter ==
    (Called /\ res.kind = "Ok" /\ res.frame.type = "Bulk") =>
        LET L == Len(res.frame.val) IN
        /\ HasLine /\ TagByte = Dollar
        /\ IsSignedIntText(TheLine) /\ ~IsNegativeText(TheLine)
        /\ Len(Magnitude(TheLine)) <= 9 /\ DigitsToNat(Magnitude(TheLine)) = L
        /\ pos = LineEnd + 2 + L + 2
        /\ pos <= Len(buf)
        /\ res.frame.val = SubSeq(buf, LineEnd + 3, LineEnd + 2 + L)
        /\ SubSeq(buf, pos - 1, pos) = CRLF

C8_Bulk(belowRange) ==
    (HasLine /\ TagByte = Dollar) =>
        /\ (res.kind = "Ok" /\ res.frame = Null) <=> IsMinusOne(TheLine)
        /\ IsMinusOne(TheLine) => pos = LineEnd + 2
        /\ (/\ IsZeroText(TheLine)
            /\ Len(buf) >= LineEnd + 4
            /\ SubSeq(buf, LineEnd + 3, LineEnd + 4) = CRLF) =>
              (res.kind = "Ok" /\ res.frame = Bulk(<<>>) /\ pos = LineEnd + 4)
        /\ (IsNegativeText(TheLine) /\ ~IsMinusOne(TheLine)) =>
              /\ res.kind = "Other"
              /\ res.msg = (IF LeqDigits(Magnitude(TheLine), I32MinMag)
                            THEN InvalidBulkSize ELSE belowRange)

\* C8 as stated: a '$' frame is Null exactly when its length is -1, and then
\* the position stops after the length line; length 0 followed by the
\* delimiter is an empty Bulk; every other negative length is the error
\* "invalid bulk string size".
C8_NegativeLengthIsBulkSizeError == C8_Bulk(InvalidBulkSize)

\* C8 amended: as C8, but only the negative lengths from -2^31 on are the
\* error "invalid bulk string size"; a length below -2^31 is the error
\* "invalid integer format".
C8_NegativeI32IsBulkSizeError == C8_Bulk(InvalidIntegerFormat)

\* A length of -2 or less was refused as a bulk size
C8_Witness ==
    /\ HasLine /\ TagByte = Dollar /\ IsNegativeText(TheLine)
    /\ res.kind = "Other" /\ res.msg = InvalidBulkSize

C10Types == {"Simple", "Error", "Integer", "Bulk", "Null"}

WireFrames == [k \in 1..Len(wire) |-> wire[k].frame]

\* The offset in the stream at which the first k items end
Offset(k) == Len(ItemBytes(Take(wire, k)))

\* C10: on a buffer that is a concatenation of complete valid encodings,
\* repeated calls return the frames of the encodings in order, each call
\* ends at the end of an encoding, and the calls end with Incomplete at the
\* buffer's end.
C10_SequentialDecode ==
    (/\ wire # <<>>
     /\ \A k \in 1..Len(wire) : wire[k].frame.type \in C10Types
     /\ buf = Stream) =>
        /\ res.kind \in {"NoCall", "Ok", "Incomplete"}
        /\ Len(frames) <= Len(wire)
        /\ frames = Take(WireFrames, Len(frames))
        /\ pos = Offset(Len(frames))
        /\ res.kind = "Incomplete" => Len(frames) = Len(wire)

====
